---- MODULE Spec2Model ----
(***************************************************************************)
(* Task lifecycle of todo-app-webui: the Go task service                   *)
(* (api/handlers/task_handler.go) over the MySQL table `tasks`             *)
(* (db/migrations/init.sql), and the React client (src/App.tsx,            *)
(* src/api/taskApi.ts) that talks to it.                                   *)
(*                                                                         *)
(* Instants are integers counting milliseconds from an arbitrary origin.   *)
(* A title is a string.  A task id (a UUID string in the code) is a        *)
(* positive integer; 0 stands for the empty string.                        *)
(***************************************************************************)
EXTENDS Integers, Sequences, FiniteSets, TLC

VARIABLES
    tasksTable,   \* the rows of table `tasks`: a function id -> row
    now,          \* the service's clock, time.Now()
    issued,       \* the ids uuid.New() has handed out so far
    deletedOk,    \* history: per id, how many DELETE requests answered 200
    resp          \* the last request the service handled, its response, and
                  \* what it found and changed in the table (history)


VARIABLES
    tz,              \* the browser's offset from UTC, in milliseconds
    tasks,           \* React state `tasks`: the local list
    loading,         \* React state `loading`: the busy flag
    error,           \* React state `error`
    calls,           \* the handler invocations awaiting their response
    toggles,         \* history: how many toggles the user has made
    failures,        \* history: how many fetches have been rejected
    clientNow,       \* the browser's clock, new Date()
    shown            \* the overdue marks of the last render

VARIABLES
    inflight         \* the handlers running in the service at once, each
                     \* with its position and locals, and the table they
                     \* began on (history)

serverVars == <<tasksTable, now, issued, deletedOk, resp>>
clientVars == <<tz, tasks, loading, error, calls, toggles, failures>>
renderVars == <<clientNow, shown>>
handlerVars == <<inflight>>

----------------------------------------------------------------------------
(* Bounds of the model *)

MaxTasks == 2          \* ids uuid.New() may hand out; ids requests may name
MaxTicks == 2          \* how often the service clock advances
ClockStep == 400       \* milliseconds per advance of the service clock
MaxInFlight == 2       \* handler invocations that may await a response at once
MaxToggles == 2        \* toggles the user makes
MaxFailures == 1       \* fetches the network rejects
MaxDays == 2           \* calendar days the overdue rule is tried on

(* Program constants *)

MaxTitleLen == 255     \* title VARCHAR(255)
MsPerSec == 1000       \* DATETIME columns hold whole seconds
MsPerHour == 3600 * MsPerSec
MsPerDay == 24 * MsPerHour

NoDate == -1           \* a dueDate that is missing from the body or does not parse
ZeroTime == -2         \* Go's zero time.Time{}

TaskIds == 1..MaxTasks

\* A title of 256 characters, one more than the column holds.
X16 == "xxxxxxxxxxxxxxxx"
X64 == X16 \o X16 \o X16 \o X16
LongTitle == X64 \o X64 \o X64 \o X64

\* 1600 has a fraction of a second.
DueDates == {1000, 1600}

Request(title, dueDate, completed) ==
    [title |-> title, dueDate |-> dueDate, completed |-> completed]

\* The JSON bodies sent to POST /tasks and PUT /tasks/{id}.
ValidRequests == {Request("a", 1000, FALSE), Request("a", 1000, TRUE),
                  Request("a", 1600, FALSE), Request("b", 1600, TRUE)}
InvalidRequests == {Request("", 1000, FALSE), Request("a", NoDate, TRUE)}
Requests == ValidRequests \cup InvalidRequests \cup {Request(LongTitle, 1000, FALSE)}

NoRequest == Request("", NoDate, FALSE)

ZeroTask == [id |-> 0, title |-> "", dueDate |-> ZeroTime, completed |-> FALSE,
             createdAt |-> ZeroTime, updatedAt |-> ZeroTime]

----------------------------------------------------------------------------
(* The store: MySQL behind database/sql and go-sql-driver *)

\* A DATETIME column without fractional-seconds precision rounds the value
\* it is given to the nearest second.
RoundToSecond(t) == ((t + MsPerSec \div 2) \div MsPerSec) * MsPerSec

Row(title, dueDate, completed, createdAt, updatedAt) ==
    [title |-> title, due_date |-> RoundToSecond(dueDate), completed |-> completed,
     created_at |-> RoundToSecond(createdAt), updated_at |-> RoundToSecond(updatedAt)]

ExecResult(err, table, rowsAffected) ==
    [err |-> err, table |-> table, rowsAffected |-> rowsAffected]

\* INSERT INTO tasks (...) VALUES (?, ?, ?, ?, ?, ?)
\* The primary key rejects a duplicate id; strict SQL mode rejects a title
\* longer than the column.
ExecInsert(table, id, title, dueDate, completed, createdAt, updatedAt) ==
    IF id \in DOMAIN table \/ Len(title) > MaxTitleLen
    THEN ExecResult(TRUE, table, 0)
    ELSE ExecResult(FALSE,
                    table @@ (id :> Row(title, dueDate, completed, createdAt, updatedAt)),
                    1)

\* The DSN sets no clientFoundRows, so RowsAffected counts the rows an UPDATE
\* changed: a matched row whose new values equal the stored ones counts 0.
RowsChanged(old, new) == IF old = new THEN 0 ELSE 1

\* UPDATE tasks SET title = ?, due_date = ?, completed = ?, updated_at = ? WHERE id = ?
ExecUpdate(table, title, dueDate, completed, updatedAt, id) ==
    IF id \notin DOMAIN table
    THEN ExecResult(FALSE, table, 0)
    ELSE IF Len(title) > MaxTitleLen
    THEN ExecResult(TRUE, table, 0)
    ELSE LET new == Row(title, dueDate, completed, 0, updatedAt)
             row == [new EXCEPT !.created_at = table[id].created_at]
         IN  ExecResult(FALSE, [table EXCEPT ![id] = row], RowsChanged(table[id], row))

\* Mutant: the WHERE clause is lost, every row goes.
ExecDeleteAllRows(table, id) ==
    IF id \in DOMAIN table
    THEN ExecResult(FALSE, [i \in {} |-> table[i]], Cardinality(DOMAIN table))
    ELSE ExecResult(FALSE, table, 0)

\* DELETE FROM tasks WHERE id = ?
ExecDelete(table, id) ==
    IF id \in DOMAIN table
    THEN ExecResult(FALSE, [i \in DOMAIN table \ {id} |-> table[i]], 1)
    ELSE ExecResult(FALSE, table, 0)

\* rows.Scan / row.Scan into models.Task
ScanTask(table, id) ==
    [id |-> id, title |-> table[id].title, dueDate |-> table[id].due_date,
     completed |-> table[id].completed,
     createdAt |-> table[id].created_at, updatedAt |-> table[id].updated_at]

\* Mutant: the ORDER BY clause is lost, the rows come in any order.
QueryUnordered(table) ==
    LET n == Cardinality(DOMAIN table)
    IN  {s \in [1..n -> DOMAIN table] : \A i, j \in 1..n : i # j => s[i] # s[j]}

\* SELECT ... FROM tasks ORDER BY due_date ASC: every order of the rows that
\* ascends by due_date (rows with equal due_date come in any order).
QueryOrderByDueDate(table) ==
    LET n == Cardinality(DOMAIN table)
    IN  {s \in [1..n -> DOMAIN table] :
            /\ \A i, j \in 1..n : i # j => s[i] # s[j]
            /\ \A i \in 1..n : \A j \in 1..n :
                  i < j => table[s[i]].due_date <= table[s[j]].due_date}

----------------------------------------------------------------------------
(* The service: handlers.TaskHandler *)

\* Mutant: title loses its binding:"required" tag.
ShouldBindJSONTitleOptional(req) == req.dueDate # NoDate

\* c.ShouldBindJSON(&req) with binding:"required" on title and dueDate
ShouldBindJSON(req) == req.title # "" /\ req.dueDate # NoDate

\* uuid.New().String(): an id never handed out before
NewUuid(handedOut) == Cardinality(handedOut) + 1

Reply(table, status, task) == [table |-> table, status |-> status, task |-> task]

CreateTask(table, t, id, req) ==
    IF ~ShouldBindJSON(req) THEN Reply(table, 400, ZeroTask)
    ELSE LET r == ExecInsert(table, id, req.title, req.dueDate, req.completed, t, t)
         IN  IF r.err THEN Reply(table, 500, ZeroTask)
             ELSE Reply(r.table, 201,
                        [id |-> id, title |-> req.title, dueDate |-> req.dueDate,
                         completed |-> req.completed, createdAt |-> t, updatedAt |-> t])

\* Mutant: the rowsAffected == 0 check is lost.
UpdateTaskUnchecked(table, t, id, req) ==
    IF ~ShouldBindJSON(req) THEN Reply(table, 400, ZeroTask)
    ELSE LET r == ExecUpdate(table, req.title, req.dueDate, req.completed, t, id)
         IN  IF r.err THEN Reply(table, 500, ZeroTask)
             ELSE Reply(r.table, 200,
                        [id |-> id, title |-> req.title, dueDate |-> req.dueDate,
                         completed |-> req.completed, createdAt |-> ZeroTime,
                         updatedAt |-> t])

UpdateTask(table, t, id, req) ==
    IF ~ShouldBindJSON(req) THEN Reply(table, 400, ZeroTask)
    ELSE LET r == ExecUpdate(table, req.title, req.dueDate, req.completed, t, id)
         IN  IF r.err THEN Reply(table, 500, ZeroTask)
             ELSE IF r.rowsAffected = 0 THEN Reply(r.table, 404, ZeroTask)
             ELSE Reply(r.table, 200,
                        [id |-> id, title |-> req.title, dueDate |-> req.dueDate,
                         completed |-> req.completed, createdAt |-> ZeroTime,
                         updatedAt |-> t])

DeleteTask(table, id) ==
    LET r == ExecDelete(table, id)
    IN  IF r.err THEN Reply(table, 500, ZeroTask)
        ELSE IF r.rowsAffected = 0 THEN Reply(r.table, 404, ZeroTask)
        ELSE Reply(r.table, 200, ZeroTask)

GetTask(table, id) ==
    IF id \notin DOMAIN table THEN Reply(table, 404, ZeroTask)
    ELSE Reply(table, 200, ScanTask(table, id))

\* The bodies GetTasks may answer with: `var tasks []models.Task` stays nil
\* when there is no row, and a nil slice is written as JSON null.
GetTasks(table) ==
    {[null |-> Cardinality(DOMAIN table) = 0,
      tasks |-> [i \in 1..Cardinality(DOMAIN table) |-> ScanTask(table, s[i])]] :
        s \in QueryOrderByDueDate(table)}

----------------------------------------------------------------------------
(* Requests arriving at the service *)

\* The ids whose row is added, removed or altered between two tables.
Changed(before, after) ==
    {i \in DOMAIN before \cup DOMAIN after :
        \/ i \notin DOMAIN before
        \/ i \notin DOMAIN after
        \/ before[i] # after[i]}

\* op, id, req: the request.  status, task, null, tasks: the response.
\* existed, changed, prior: whether the id named had a row when the request
\* arrived, the ids whose rows the request changed, and the ids handed out
\* before it.
Response(op, id, req, status, task, null, list, existed, changed) ==
    [op |-> op, id |-> id, req |-> req, status |-> status, task |-> task,
     null |-> null, tasks |-> list, existed |-> existed, changed |-> changed,
     prior |-> issued]

Handled(op, id, req, r) ==
    /\ tasksTable' = r.table
    /\ resp' = Response(op, id, req, r.status, r.task, FALSE, <<>>,
                        id \in DOMAIN tasksTable, Changed(tasksTable, r.table))

ApiCreateTask ==
    \E req \in Requests :
        /\ Cardinality(issued) < MaxTasks
        /\ Handled("CreateTask", 0, req,
                   CreateTask(tasksTable, now, NewUuid(issued), req))
        /\ issued' = IF ShouldBindJSON(req) THEN issued \cup {NewUuid(issued)}
                                            ELSE issued
        /\ UNCHANGED <<now, deletedOk, clientVars, renderVars, handlerVars>>

ApiUpdateTask ==
    \E id \in TaskIds, req \in Requests :
        /\ Handled("UpdateTask", id, req, UpdateTask(tasksTable, now, id, req))
        /\ UNCHANGED <<now, issued, deletedOk, clientVars, renderVars, handlerVars>>

ApiDeleteTask ==
    \E id \in TaskIds :
        /\ Handled("DeleteTask", id, NoRequest, DeleteTask(tasksTable, id))
        /\ deletedOk' = IF DeleteTask(tasksTable, id).status = 200
                        THEN [deletedOk EXCEPT ![id] = @ + 1]
                        ELSE deletedOk
        /\ UNCHANGED <<now, issued, clientVars, renderVars, handlerVars>>

ApiGetTask ==
    \E id \in TaskIds :
        /\ Handled("GetTask", id, NoRequest, GetTask(tasksTable, id))
        /\ UNCHANGED <<now, issued, deletedOk, clientVars, renderVars, handlerVars>>

ApiGetTasks ==
    \E body \in GetTasks(tasksTable) :
        /\ resp' = Response("GetTasks", 0, NoRequest, 200, ZeroTask, body.null,
                            body.tasks, FALSE, {})
        /\ UNCHANGED <<tasksTable, now, issued, deletedOk, clientVars, renderVars, handlerVars>>

\* Time passes between requests.
Tick ==
    /\ now < MaxTicks * ClockStep
    /\ now' = now + ClockStep
    /\ UNCHANGED <<tasksTable, issued, deletedOk, resp, clientVars, renderVars, handlerVars>>

EmptyTable == [i \in {} |-> ZeroTask]

ServerInit ==
    /\ tasksTable = EmptyTable
    /\ now = 0
    /\ issued = {}
    /\ deletedOk = [i \in TaskIds |-> 0]
    /\ resp = Response("none", 0, NoRequest, 0, ZeroTask, FALSE, <<>>, FALSE, {})

----------------------------------------------------------------------------
(* The client: src/api/taskApi.ts *)

\* A timestamp on the wire: the wall-clock reading that is written out, and
\* the offset its zone designator states ("Z" states 0).
Wire(wall, offset) == [wall |-> wall, offset |-> offset]

\* format(date, "yyyy-MM-dd'T'HH:mm:ss'Z'"): the local wall-clock reading of
\* the date, to the second, followed by a literal Z.
formatDateForApi(date, offset) ==
    Wire(((date + offset) \div MsPerSec) * MsPerSec, 0)

\* Go's time.Time read from and written to JSON (RFC 3339).
TimeUnmarshalJSON(w) == w.wall - w.offset
TimeMarshalJSON(t) == Wire(t, 0)

\* new Date(task.dueDate)
NewDate(w) == w.wall - w.offset

\* parseDateFromApi: {...task, dueDate: new Date(task.dueDate)}
parseDateFromApi(task) ==
    [task EXCEPT !.dueDate = NewDate(TimeMarshalJSON(task.dueDate))]

\* The body of POST /tasks and PUT /tasks/{id} as the service binds it.
BoundRequest(title, dueDate, completed, offset) ==
    Request(title, TimeUnmarshalJSON(formatDateForApi(dueDate, offset)), completed)

\* handleResponse: response.ok
ResponseOk(status) == status >= 200 /\ status <= 299

----------------------------------------------------------------------------
(* The client: src/App.tsx *)

\* `error` is null or one of four messages, one per handler; the model keeps
\* only whether a message is set.
NoError == "null"
ErrorMessage == "failed"

\* The value of <input type="date">: empty, a calendar day, or (where the
\* control degrades to a text field) something that is no date.
EmptyDateInput == [kind |-> "empty", day |-> 0]
InvalidDateInput == [kind |-> "invalid", day |-> 0]
DateInput(day) == [kind |-> "date", day |-> day]

PickableDays == {1, 2}
DateInputs == {EmptyDateInput, InvalidDateInput} \cup {DateInput(d) : d \in PickableDays}
TitleInputs == {"", " ", "a"}

\* Mutant: the title is tested as typed.
TrimNothing(title) == title

\* title.trim()
Trim(title) == IF title = " " THEN "" ELSE title

\* new Date(newTaskDueDate + 'T00:00:00'): midnight of that day in local time
LocalMidnight(day, offset) == day * MsPerDay - offset

\* A handler invocation that awaits its response.  closure: the `tasks` of
\* the render the handler belongs to.  stage: "sent", "answered" (status,
\* task and list hold the response) or "failed" (the fetch rejected).
\* picked: the day the date control held when addTask was clicked (history).
Call(kind, id, req, closure) ==
    [kind |-> kind, id |-> id, req |-> req, closure |-> closure,
     stage |-> "sent", status |-> 0, task |-> ZeroTask, list |-> <<>>,
     picked |-> 0]

Mutating(call) == call.kind # "fetchTasks"

RemoveAt(seq, k) == [i \in 1..(Len(seq) - 1) |-> IF i < k THEN seq[i] ELSE seq[i + 1]]

\* Mutant: the controls lose disabled={loading}.
NeverDisabled == FALSE

\* disabled={loading} on the form fields, the add button, the switches and
\* the delete buttons
Disabled == loading

\* Mutant: the entry is inverted locally instead of taken from the response.
ReplaceTaskByLocalGuess(list, id, updatedTask) ==
    [i \in 1..Len(list) |->
        IF list[i].id = id THEN [list[i] EXCEPT !.completed = ~@] ELSE list[i]]

\* tasks.map(task => task.id === id ? updatedTask : task)
ReplaceTask(list, id, updatedTask) ==
    [i \in 1..Len(list) |-> IF list[i].id = id THEN updatedTask ELSE list[i]]

\* tasks.filter(task => task.id !== id)
FilterOut(list, id) == SelectSeq(list, LAMBDA t : t.id # id)

\* addTask, up to the await.  newTaskTitle and newTaskDueDate are what the
\* form holds when the button is clicked; the fields can be edited whenever
\* the button can be clicked, so they are inputs of the click.
addTask ==
    \E newTaskTitle \in TitleInputs, newTaskDueDate \in DateInputs :
        /\ ~Disabled
        /\ Len(calls) < MaxInFlight
        /\ Cardinality(issued) + Len(calls) < MaxTasks
        /\ IF \/ Trim(newTaskTitle) = ""
              \/ newTaskDueDate.kind = "empty"
              \/ newTaskDueDate.kind = "invalid"
           THEN UNCHANGED <<loading, error, calls>>
           ELSE /\ loading' = TRUE
                /\ error' = NoError
                /\ calls' = Append(calls,
                      [Call("addTask", 0,
                            BoundRequest(newTaskTitle,
                                         LocalMidnight(newTaskDueDate.day, tz), FALSE, tz),
                            tasks)
                          EXCEPT !.picked = newTaskDueDate.day])
        /\ UNCHANGED <<tz, tasks, toggles, failures>>
        /\ UNCHANGED <<serverVars, renderVars, handlerVars>>

\* toggleTaskCompletion, up to the await (the switch of a rendered task)
toggleTaskCompletion ==
    \E i \in 1..Len(tasks) :
        /\ ~Disabled
        /\ Len(calls) < MaxInFlight
        /\ toggles < MaxToggles
        /\ toggles' = toggles + 1
        /\ loading' = TRUE
        /\ error' = NoError
        /\ calls' = Append(calls,
              Call("toggleTaskCompletion", tasks[i].id,
                   BoundRequest(tasks[i].title, tasks[i].dueDate,
                                ~tasks[i].completed, tz),
                   tasks))
        /\ UNCHANGED <<tz, tasks, failures>>
        /\ UNCHANGED <<serverVars, renderVars, handlerVars>>

\* deleteTask, up to the await (the delete button of a rendered task)
deleteTask ==
    \E i \in 1..Len(tasks) :
        /\ ~Disabled
        /\ Len(calls) < MaxInFlight
        /\ loading' = TRUE
        /\ error' = NoError
        /\ calls' = Append(calls, Call("deleteTask", tasks[i].id, NoRequest, tasks))
        /\ UNCHANGED <<tz, tasks, toggles, failures>>
        /\ UNCHANGED <<serverVars, renderVars, handlerVars>>

\* What the service answers to a call, and the table it leaves.
Served(call) ==
    IF call.kind = "addTask"
    THEN {CreateTask(tasksTable, now, NewUuid(issued), call.req) @@ [list |-> <<>>]}
    ELSE IF call.kind = "toggleTaskCompletion"
    THEN {UpdateTask(tasksTable, now, call.id, call.req) @@ [list |-> <<>>]}
    ELSE IF call.kind = "deleteTask"
    THEN {DeleteTask(tasksTable, call.id) @@ [list |-> <<>>]}
    ELSE {Reply(tasksTable, 200, ZeroTask) @@ [list |-> body.tasks] :
             body \in GetTasks(tasksTable)}

\* The request of a call reaches the service and is answered.
ServerHandle ==
    \E k \in 1..Len(calls) : \E r \in Served(calls[k]) :
        /\ calls[k].stage = "sent"
        /\ calls[k].kind = "addTask" => Cardinality(issued) < MaxTasks
        /\ tasksTable' = r.table
        /\ issued' = IF calls[k].kind = "addTask" /\ ShouldBindJSON(calls[k].req)
                     THEN issued \cup {NewUuid(issued)} ELSE issued
        /\ calls' = [calls EXCEPT ![k].stage = "answered", ![k].status = r.status,
                                  ![k].task = r.task, ![k].list = r.list]
        /\ UNCHANGED <<now, deletedOk, resp>>
        /\ UNCHANGED <<tz, tasks, loading, error, toggles, failures>>
        /\ UNCHANGED <<renderVars, handlerVars>>

\* The request or its response is lost: fetch rejects.
NetworkFail ==
    \E k \in 1..Len(calls) :
        /\ calls[k].stage \in {"sent", "answered"}
        /\ failures < MaxFailures
        /\ failures' = failures + 1
        /\ calls' = [calls EXCEPT ![k].stage = "failed"]
        /\ UNCHANGED <<tz, tasks, loading, error, toggles>>
        /\ UNCHANGED <<serverVars, renderVars, handlerVars>>

\* Mutant: handleResponse loses its check of response.ok.
SucceededWithoutOk(call) == call.stage = "answered"

Succeeded(call) == call.stage = "answered" /\ ResponseOk(call.status)

\* Mutant: the handlers lose their finally block.
WithoutFinally == loading

\* finally { setLoading(false) }
AfterFinally == FALSE

\* The rest of a handler, after the await: try, catch and finally.
Resolve ==
    \E k \in 1..Len(calls) :
        LET call == calls[k] IN
        /\ call.stage \in {"answered", "failed"}
        /\ calls' = RemoveAt(calls, k)
        /\ loading' = AfterFinally
        /\ IF ~Succeeded(call)
           THEN /\ error' = ErrorMessage
                /\ UNCHANGED tasks
           ELSE IF call.kind = "fetchTasks"
           THEN /\ tasks' = [i \in 1..Len(call.list) |-> parseDateFromApi(call.list[i])]
                /\ error' = NoError
           ELSE IF call.kind = "addTask"
           THEN /\ tasks' = Append(tasks, parseDateFromApi(call.task))
                /\ UNCHANGED error
           ELSE IF call.kind = "toggleTaskCompletion"
           THEN /\ tasks' = ReplaceTask(call.closure, call.id, parseDateFromApi(call.task))
                /\ UNCHANGED error
           ELSE /\ tasks' = FilterOut(call.closure, call.id)
                /\ UNCHANGED error
        /\ UNCHANGED <<tz, toggles, failures>>
        /\ UNCHANGED <<serverVars, renderVars, handlerVars>>

\* today.setHours(0, 0, 0, 0): the start of the local day of an instant
StartOfLocalDay(t, offset) == ((t + offset) \div MsPerDay) * MsPerDay - offset

\* date-fns isAfter(date, dateToCompare)
isAfter(date, dateToCompare) == date > dateToCompare

\* Mutant: today keeps its time of day.
isTaskOverdueByInstant(task, current, offset) ==
    ~task.completed /\ isAfter(current, task.dueDate)

isTaskOverdue(task, current, offset) ==
    LET today == StartOfLocalDay(current, offset)
    IN  ~task.completed /\ isAfter(today, task.dueDate)

\* The calendar day an instant falls on in local time, as
\* format(task.dueDate, 'yyyy年MM月dd日') prints it.
LocalDay(t, offset) == (t + offset) \div MsPerDay

\* The list is rendered: every task gets its overdue mark.
Render ==
    /\ shown' = [at |-> clientNow,
                 marks |-> [i \in 1..Len(tasks) |->
                               isTaskOverdue(tasks[i], clientNow, tz)]]
    /\ UNCHANGED <<clientNow, serverVars, clientVars, handlerVars>>

----------------------------------------------------------------------------
(* Handlers running at once in the service.  gin runs each request in its  *)
(* own goroutine; a handler is a sequence of steps around one h.DB.Exec,   *)
(* which the database executes as one atomic statement.                    *)

\* A request as it arrives.  pc: "arrived", "bound" (the body is bound and
\* now := time.Now() is taken), "executed" (Exec has returned err and
\* RowsAffected), "done" (c.JSON has written status and task).
Handler(op, id, req) ==
    [op |-> op, id |-> id, req |-> req, pc |-> "arrived", t |-> 0,
     err |-> FALSE, rowsAffected |-> 0, status |-> 0, task |-> ZeroTask]

\* Mutant: a statement works on the table as it was when the first handler
\* arrived, and writes that table back.
StaleRead(table, origin) == origin

\* The table a statement works on: the committed rows at the time it runs.
CommittedRead(table, origin) == table

\* c.Param("id"), c.ShouldBindJSON(&req), now := time.Now()
HandlerBind ==
    \E s \in 1..Len(inflight.handlers) :
        LET h == inflight.handlers[s] IN
        /\ h.pc = "arrived"
        /\ inflight' =
              IF h.op = "UpdateTask" /\ ~ShouldBindJSON(h.req)
              THEN [inflight EXCEPT !.handlers[s].pc = "done",
                                    !.handlers[s].status = 400]
              ELSE [inflight EXCEPT !.handlers[s].pc = "bound",
                                    !.handlers[s].t = now]
        /\ UNCHANGED <<serverVars, clientVars, renderVars>>

\* h.DB.Exec(...) and result.RowsAffected()
HandlerExec ==
    \E s \in 1..Len(inflight.handlers) :
        LET h == inflight.handlers[s]
            table == CommittedRead(tasksTable, inflight.origin)
            r == IF h.op = "UpdateTask"
                 THEN ExecUpdate(table, h.req.title, h.req.dueDate,
                                 h.req.completed, h.t, h.id)
                 ELSE ExecDelete(table, h.id)
        IN
        /\ h.pc = "bound"
        /\ tasksTable' = r.table
        /\ inflight' = [inflight EXCEPT !.handlers[s].pc = "executed",
                                        !.handlers[s].err = r.err,
                                        !.handlers[s].rowsAffected = r.rowsAffected]
        /\ UNCHANGED <<now, issued, deletedOk, resp, clientVars, renderVars>>

\* The checks of err and rowsAffected, and c.JSON
HandlerRespond ==
    \E s \in 1..Len(inflight.handlers) :
        LET h == inflight.handlers[s] IN
        /\ h.pc = "executed"
        /\ inflight' =
              IF h.err
              THEN [inflight EXCEPT !.handlers[s].pc = "done",
                                    !.handlers[s].status = 500]
              ELSE IF h.rowsAffected = 0
              THEN [inflight EXCEPT !.handlers[s].pc = "done",
                                    !.handlers[s].status = 404]
              ELSE IF h.op = "UpdateTask"
              THEN [inflight EXCEPT
                       !.handlers[s].pc = "done",
                       !.handlers[s].status = 200,
                       !.handlers[s].task =
                           [id |-> h.id, title |-> h.req.title,
                            dueDate |-> h.req.dueDate,
                            completed |-> h.req.completed,
                            createdAt |-> ZeroTime, updatedAt |-> h.t]]
              ELSE [inflight EXCEPT !.handlers[s].pc = "done",
                                    !.handlers[s].status = 200]
        /\ UNCHANGED <<serverVars, clientVars, renderVars>>

----------------------------------------------------------------------------
(* Specifications *)

vars == <<serverVars, clientVars, renderVars, handlerVars>>

TzOffsets == {0 - 5 * MsPerHour, 0, 9 * MsPerHour}

\* The page before it is opened.
ClientIdle ==
    /\ tz = 0
    /\ tasks = <<>>
    /\ loading = TRUE
    /\ error = NoError
    /\ calls = <<>>
    /\ toggles = 0
    /\ failures = 0

RenderIdle ==
    /\ clientNow = 0
    /\ shown = [at |-> 0, marks |-> <<>>]

\* No handler is running in the service.
HandlersIdle == inflight = [origin |-> EmptyTable, handlers |-> <<>>]

\* The service alone, requests arriving from any caller.
Init == ServerInit /\ ClientIdle /\ RenderIdle /\ HandlersIdle

Next ==
    \/ ApiCreateTask
    \/ ApiUpdateTask
    \/ ApiDeleteTask
    \/ ApiGetTask
    \/ ApiGetTasks
    \/ Tick

Spec == Init /\ [][Next]_vars

\* One browser and the service.  App mounts with loading = true and the
\* effect has called fetchTasks.  The service clock stands still: the client
\* makes no use of the timestamps it is sent.
ClientInit ==
    /\ ServerInit
    /\ RenderIdle
    /\ HandlersIdle
    /\ tz \in TzOffsets
    /\ tasks = <<>>
    /\ loading = TRUE
    /\ error = NoError
    /\ calls = <<Call("fetchTasks", 0, NoRequest, <<>>)>>
    /\ toggles = 0
    /\ failures = 0

ClientNext ==
    \/ addTask
    \/ toggleTaskCompletion
    \/ deleteTask
    \/ ServerHandle
    \/ NetworkFail
    \/ Resolve

SpecClient == ClientInit /\ [][ClientNext]_vars

\* The same, with what the browser and the service guarantee: a request
\* that can be handled is handled unless it is lost, and a handler whose
\* fetch has settled runs on to its end.
SpecClientFair ==
    /\ ClientInit
    /\ [][ClientNext]_vars
    /\ WF_vars(ServerHandle)
    /\ WF_vars(Resolve)

\* The overdue rule alone: one task of any due date and completion, looked
\* at from any time zone at any time.
OverdueDays == 1..MaxDays
Instants ==
    {d * MsPerDay - z + e : d \in OverdueDays, z \in TzOffsets, e \in {0 - 1, 0, 1}}
        \cup {d * MsPerDay + 12 * MsPerHour : d \in OverdueDays}

OverdueInit ==
    /\ ServerInit
    /\ HandlersIdle
    /\ tz \in TzOffsets
    /\ \E due \in Instants, done \in BOOLEAN :
          tasks = <<[ZeroTask EXCEPT !.id = 1, !.title = "a", !.dueDate = due,
                                    !.completed = done]>>
    /\ loading = FALSE
    /\ error = NoError
    /\ calls = <<>>
    /\ toggles = 0
    /\ failures = 0
    /\ clientNow \in Instants
    /\ shown = [at |-> 0, marks |-> <<>>]

OverdueNext == Render

SpecOverdue == OverdueInit /\ [][OverdueNext]_vars

\* Two requests that name the same id arrive at once, on a table that
\* earlier requests made at clock 0.
ContendedId == 1
StartTables ==
    {EmptyTable,
     ContendedId :> Row("a", 1000, FALSE, 0, 0),
     (ContendedId :> Row("a", 1000, FALSE, 0, 0)) @@ (2 :> Row("b", 1600, TRUE, 0, 0))}

ConcurrentRequests ==
    {Handler("UpdateTask", ContendedId, req) :
        req \in {Request("a", 1000, FALSE), Request("b", 1600, TRUE),
                 Request("", 1000, FALSE)}}
        \cup {Handler("DeleteTask", ContendedId, NoRequest)}

ConcurrentInit ==
    /\ tasksTable \in StartTables
    /\ now = 0
    /\ issued = DOMAIN tasksTable
    /\ deletedOk = [i \in TaskIds |-> 0]
    /\ resp = Response("none", 0, NoRequest, 0, ZeroTask, FALSE, <<>>, FALSE, {})
    /\ ClientIdle
    /\ RenderIdle
    /\ \E a \in ConcurrentRequests, b \in ConcurrentRequests :
          inflight = [origin |-> tasksTable, handlers |-> <<a, b>>]

ConcurrentNext ==
    \/ HandlerBind
    \/ HandlerExec
    \/ HandlerRespond
    \/ Tick

SpecConcurrent == ConcurrentInit /\ [][ConcurrentNext]_vars

----------------------------------------------------------------------------
(* Claims about the service, checked under Spec *)

IsRequest(op) == resp.op = op

\* C1: updateTask on an id that has no row, with a valid body, answers 404
\* and leaves every row of the table as it was.
C1_UpdateAbsentIsNotFound ==
    (IsRequest("UpdateTask") /\ ~resp.existed /\ ShouldBindJSON(resp.req))
        => (resp.status = 404 /\ resp.changed = {})

\* A valid update of an id without a row was answered while the table held
\* another row.
C1_Witness ==
    /\ IsRequest("UpdateTask") /\ ~resp.existed /\ ShouldBindJSON(resp.req)
    /\ resp.status = 404
    /\ tasksTable # EmptyTable

\* A request whose values the table stores exactly as given.
StoredAsGiven(req) ==
    /\ ShouldBindJSON(req)
    /\ Len(req.title) <= MaxTitleLen
    /\ RoundToSecond(req.dueDate) = req.dueDate

\* C2: updateTask on an id that has a row, with a valid body, answers 200 and
\* the row then holds the request's title, dueDate and completed; 404 is
\* answered only when the id has no row.  Stated for the requests whose
\* values the table stores as given, which leaves the claim's own case: the
\* requested values equal the stored ones.
C2_UpdateExistingSucceeds ==
    (IsRequest("UpdateTask") /\ resp.existed /\ StoredAsGiven(resp.req))
        => /\ resp.status = 200
           /\ resp.status # 404
           /\ resp.id \in DOMAIN tasksTable
           /\ tasksTable[resp.id].title = resp.req.title
           /\ tasksTable[resp.id].due_date = resp.req.dueDate
           /\ tasksTable[resp.id].completed = resp.req.completed

\* C3: deleteTask on an id with a row removes that row and no other and
\* answers 200; on an id without a row it answers 404 and changes nothing;
\* no id is deleted successfully twice.
C3_DeleteOnce ==
    /\ (IsRequest("DeleteTask") /\ resp.existed)
          => /\ resp.status = 200
             /\ resp.changed = {resp.id}
             /\ resp.id \notin DOMAIN tasksTable
    /\ (IsRequest("DeleteTask") /\ ~resp.existed)
          => (resp.status = 404 /\ resp.changed = {})
    /\ \A i \in TaskIds : deletedOk[i] <= 1

\* A second delete of an id deleted before was answered 404 while another
\* task was still stored.
C3_Witness ==
    /\ IsRequest("DeleteTask") /\ resp.status = 404
    /\ deletedOk[resp.id] = 1
    /\ tasksTable # EmptyTable

\* C4: createTask with a valid body inserts exactly one row and answers 201
\* with a task whose id is non-empty and was never handed out before, whose
\* createdAt equals updatedAt and whose title, dueDate and completed are the
\* request's.
C4_CreateValid ==
    (IsRequest("CreateTask") /\ ShouldBindJSON(resp.req))
        => /\ resp.status = 201
           /\ resp.task.id # 0
           /\ resp.task.id \notin resp.prior
           /\ resp.changed = {resp.task.id}
           /\ resp.task.id \in DOMAIN tasksTable
           /\ resp.task.createdAt = resp.task.updatedAt
           /\ resp.task.title = resp.req.title
           /\ resp.task.dueDate = resp.req.dueDate
           /\ resp.task.completed = resp.req.completed

\* C5: createTask and updateTask with an empty title or without a parseable
\* dueDate answer 400 and change no row; no stored task has an empty title.
C5_InvalidIsRejected ==
    /\ ((IsRequest("CreateTask") \/ IsRequest("UpdateTask"))
            /\ (resp.req.title = "" \/ resp.req.dueDate = NoDate))
          => (resp.status = 400 /\ resp.changed = {} /\ resp.prior = issued)
    /\ \A i \in DOMAIN tasksTable : tasksTable[i].title # ""

\* An update with an empty title was refused on an id that has a row.
C5_Witness ==
    /\ IsRequest("UpdateTask") /\ resp.req.title = "" /\ resp.existed
    /\ resp.status = 400

\* C6: listTasks answers with the tasks in the table, each once, in
\* ascending order of dueDate.
C6_ListSorted ==
    IsRequest("GetTasks")
        => /\ resp.status = 200
           /\ Len(resp.tasks) = Cardinality(DOMAIN tasksTable)
           /\ {resp.tasks[i].id : i \in 1..Len(resp.tasks)} = DOMAIN tasksTable
           /\ \A i \in 1..Len(resp.tasks) :
                 LET t == resp.tasks[i]
                 IN  /\ t.title = tasksTable[t.id].title
                     /\ t.dueDate = tasksTable[t.id].due_date
                     /\ t.completed = tasksTable[t.id].completed
           /\ \A i \in 1..(Len(resp.tasks) - 1) :
                 resp.tasks[i].dueDate <= resp.tasks[i + 1].dueDate

\* A list of two tasks was returned in which the task created second comes
\* first because it is due earlier.
C6_Witness ==
    /\ IsRequest("GetTasks") /\ Len(resp.tasks) = 2
    /\ resp.tasks[1].id > resp.tasks[2].id
    /\ resp.tasks[1].dueDate < resp.tasks[2].dueDate

\* C7: getTask right after a successful createTask, on the id it returned,
\* answers with that id and with the title and dueDate of the creation
\* request.
C7_CreateThenGet ==
    [][(/\ resp.op = "CreateTask" /\ resp.status = 201
        /\ resp'.op = "GetTask" /\ resp'.id = resp.task.id
        /\ tasksTable' = tasksTable)
          => /\ resp'.status = 200
             /\ resp'.task.id = resp.task.id
             /\ resp'.task.title = resp.req.title
             /\ resp'.task.dueDate = resp.req.dueDate]_vars

----------------------------------------------------------------------------
(* Claims about the client *)

\* C8: a task is marked overdue exactly when it is not completed and the
\* local calendar day of the render is after the local calendar day of its
\* dueDate.
C8_OverdueIffPastDueDay ==
    \A i \in 1..Len(shown.marks) :
        shown.marks[i] = (/\ ~tasks[i].completed
                          /\ LocalDay(shown.at, tz) > LocalDay(tasks[i].dueDate, tz))

\* An open task due earlier on the day of the render is shown as not overdue.
C8_Witness ==
    /\ shown.marks = <<FALSE>>
    /\ ~tasks[1].completed
    /\ LocalDay(shown.at, tz) = LocalDay(tasks[1].dueDate, tz)
    /\ shown.at > tasks[1].dueDate

IsToggle(call) == call.kind = "toggleTaskCompletion"

\* C9: while a toggle awaits its response the local list stays as it was;
\* when it ends well the entry with its id becomes the task the service
\* returned and the other entries stay; when it fails the list stays.
C9_Step ==
    \A k \in 1..Len(calls) :
        IsToggle(calls[k]) =>
            /\ (Len(calls') = Len(calls) /\ IsToggle(calls'[k])) => tasks' = tasks
            /\ (calls' = RemoveAt(calls, k) /\ ~Succeeded(calls[k])) => tasks' = tasks
            /\ (calls' = RemoveAt(calls, k) /\ Succeeded(calls[k])) =>
                  /\ Len(tasks') = Len(tasks)
                  /\ \A i \in 1..Len(tasks) :
                        tasks'[i] = IF tasks[i].id = calls[k].id
                                    THEN parseDateFromApi(calls[k].task)
                                    ELSE tasks[i]

C9_ToggleWaitsForServer == [][C9_Step]_vars

\* A toggle has ended well in a list of two tasks.
C9_Witness ==
    /\ calls = <<>>
    /\ Len(tasks) = 2
    /\ \E i \in 1..2 : tasks[i].completed /\ tasks[i].createdAt = ZeroTime

\* C10: at most one create, toggle or delete awaits its response, and while
\* one does the controls are disabled.
C10_OneMutationInFlight ==
    /\ Cardinality({k \in 1..Len(calls) : Mutating(calls[k])}) <= 1
    /\ (\E k \in 1..Len(calls) : Mutating(calls[k])) => loading

\* A create, toggle or delete awaits its response while the list shows a task.
C10_Witness ==
    /\ Len(calls) = 1 /\ Mutating(calls[1]) /\ calls[1].stage = "sent"
    /\ Len(tasks) >= 1

\* The fetch of a call rejected, or its response was not ok.
Failed(call) ==
    \/ call.stage = "failed"
    \/ call.stage = "answered" /\ ~(call.status >= 200 /\ call.status <= 299)

\* C11: when the request of a handler fails (the fetch rejects or the
\* response is not a success) the handler leaves the local list as it was
\* (empty for the initial load) and sets an error message; a step that ends
\* a call starts no other.
C11_Step ==
    /\ \A k \in 1..Len(calls) :
          (Failed(calls[k]) /\ calls' = RemoveAt(calls, k))
             => /\ tasks' = tasks
                /\ error' # NoError
                /\ calls[k].kind = "fetchTasks" => tasks' = <<>>
    /\ Len(calls') < Len(calls) => \E k \in 1..Len(calls) : calls' = RemoveAt(calls, k)

C11_FailureLeavesList == [][C11_Step]_vars

\* A delete reached the service, its response was lost, and the client
\* shows an error and still lists the task the service no longer has.
C11_Witness ==
    /\ calls = <<>> /\ ~loading
    /\ error # NoError
    /\ Len(tasks) = 1
    /\ tasksTable = EmptyTable

----------------------------------------------------------------------------
(* Further claims about the service, checked under Spec *)

\* The request handled last wrote the row of id, at the instant it returns.
WroteRow(r, id) ==
    \/ r.op = "CreateTask" /\ r.status = 201 /\ r.task.id = id
    \/ r.op = "UpdateTask" /\ r.status = 200 /\ r.id = id

\* C12: every stored task has updatedAt >= createdAt; the createdAt of a
\* stored task never changes; a successful update changes the stored
\* updatedAt (stated for an update that follows the last write of the row at
\* a later instant of the service clock); a request that fails changes no
\* updatedAt.
C12_Step ==
    /\ \A i \in DOMAIN tasksTable' :
          tasksTable'[i].updated_at >= tasksTable'[i].created_at
    /\ \A i \in DOMAIN tasksTable \cap DOMAIN tasksTable' :
          tasksTable'[i].created_at = tasksTable[i].created_at
    /\ (/\ now' = now
        /\ resp'.op = "UpdateTask" /\ resp'.status = 200
        /\ WroteRow(resp, resp'.id)
        /\ resp'.task.updatedAt > resp.task.updatedAt)
          => tasksTable'[resp'.id].updated_at # tasksTable[resp'.id].updated_at
    /\ (now' = now /\ resp'.status \notin {200, 201})
          => \A i \in DOMAIN tasksTable \cap DOMAIN tasksTable' :
                tasksTable'[i].updated_at = tasksTable[i].updated_at

C12_TimestampsRefreshed == [][C12_Step]_vars

----------------------------------------------------------------------------
(* Further claims about the client, checked under SpecClient *)

\* C13: the task that addTask appends, as the service returned it and
\* parseDateFromApi read it, has a dueDate whose local calendar day is the
\* day picked in the date control.
C13_Step ==
    \A k \in 1..Len(calls) :
        (/\ calls[k].kind = "addTask" /\ Succeeded(calls[k])
         /\ calls' = RemoveAt(calls, k))
           => LocalDay(tasks'[Len(tasks')].dueDate, tz) = calls[k].picked

C13_PickedDayIsShown == [][C13_Step]_vars

----------------------------------------------------------------------------
(* Claims about handlers running at once, checked under SpecConcurrent *)

\* A handler run alone, from arrival to response, on a table.
RunAlone(table, h) ==
    IF h.op = "UpdateTask" THEN UpdateTask(table, h.t, h.id, h.req)
                           ELSE DeleteTask(table, h.id)

\* Both handlers are done with the responses and the table that running
\* `first` alone and then `second` alone gives.
AsIfSerial(first, second) ==
    LET h1 == inflight.handlers[first]
        h2 == inflight.handlers[second]
        r1 == RunAlone(inflight.origin, h1)
        r2 == RunAlone(r1.table, h2)
    IN  /\ h1.status = r1.status /\ h1.task = r1.task
        /\ h2.status = r2.status /\ h2.task = r2.task
        /\ tasksTable = r2.table

BothDone == \A s \in 1..Len(inflight.handlers) : inflight.handlers[s].pc = "done"

\* C14: however the steps of two concurrent updateTask / deleteTask handlers
\* on one id interleave, their responses and the table they leave are those
\* of one of the two serial orders; two deletes of a stored id give one 200
\* and one 404, and an update after a delete answers 404 and leaves no row.
C14_Linearizable ==
    (Len(inflight.handlers) = 2 /\ BothDone)
        => /\ AsIfSerial(1, 2) \/ AsIfSerial(2, 1)
           /\ (/\ inflight.handlers[1].op = "DeleteTask"
               /\ inflight.handlers[2].op = "DeleteTask"
               /\ ContendedId \in DOMAIN inflight.origin)
                 => {inflight.handlers[1].status, inflight.handlers[2].status}
                        = {200, 404}
           /\ (\E s \in 1..2 : /\ inflight.handlers[s].op = "DeleteTask"
                               /\ inflight.handlers[s].status = 200)
                 => ContendedId \notin DOMAIN tasksTable

\* An update and a delete of a stored id ran interleaved, the update began
\* first but its statement ran after the delete's: it answered 404, the
\* delete 200, and the other row is as it was.
C14_Witness ==
    /\ Len(inflight.handlers) = 2 /\ BothDone
    /\ inflight.handlers[1].op = "UpdateTask" /\ inflight.handlers[1].status = 404
    /\ inflight.handlers[1].req.completed
    /\ inflight.handlers[2].op = "DeleteTask" /\ inflight.handlers[2].status = 200
    /\ DOMAIN tasksTable = {2}

\* The titles that are empty once trimmed.
BlankTitles == {"", " "}

\* C15: addTask sets the busy flag only together with sending a request, and
\* sends one only for a title that is not blank and a date the control
\* holds; when the create is answered with success, the list becomes the
\* old list followed by the task of the response, which carries an id no
\* entry has.
C15_Step ==
    /\ (loading' /\ ~loading) => Len(calls') = Len(calls) + 1
    /\ (Len(calls') = Len(calls) + 1 /\ calls'[Len(calls')].kind = "addTask")
          => LET c == calls'[Len(calls')]
             IN  /\ c.req.title \notin BlankTitles
                 /\ c.picked \in PickableDays
                 /\ c.req.dueDate # NoDate
                 /\ ~c.req.completed
                 /\ tasks' = tasks
    /\ \A k \in 1..Len(calls) :
          (/\ calls[k].kind = "addTask" /\ Succeeded(calls[k])
           /\ calls' = RemoveAt(calls, k))
             => /\ tasks' = Append(tasks, parseDateFromApi(calls[k].task))
                /\ calls[k].task.id # 0
                /\ \A i \in 1..Len(tasks) : tasks[i].id # calls[k].task.id

C15_CreateAppendsReturned == [][C15_Step]_vars

\* A second create has ended well: its task stands after the first one.
C15_Witness ==
    /\ calls = <<>> /\ ~loading /\ error = NoError
    /\ Len(tasks) = 2
    /\ tasks[1].id = 1 /\ tasks[2].id = 2
    /\ ~tasks[1].completed /\ ~tasks[2].completed
    /\ DOMAIN tasksTable = {1, 2}

\* The fields the client's Task interface names.
Shown(task) ==
    [id |-> task.id, title |-> task.title, dueDate |-> task.dueDate,
     completed |-> task.completed]

\* C16: with no failed request, whenever no call is pending and the busy
\* flag is down, the local list is what listTasks would answer now: the same
\* tasks (id, title, dueDate, completed) in the same order.
C16_ListMirrorsServer ==
    (failures = 0 /\ calls = <<>> /\ ~loading)
        => \E body \in GetTasks(tasksTable) :
              /\ Len(tasks) = Len(body.tasks)
              /\ \A i \in 1..Len(tasks) :
                    Shown(tasks[i]) = Shown(parseDateFromApi(body.tasks[i]))

----------------------------------------------------------------------------
(* Claims about what the service answers, checked under Spec *)

\* C17: when the table holds no row, listTasks answers 200 with an array of
\* length 0, not with null.
C17_EmptyListIsArray ==
    (IsRequest("GetTasks") /\ tasksTable = EmptyTable)
        => /\ resp.status = 200
           /\ Len(resp.tasks) = 0
           /\ ~resp.null

\* C19: getTask right after a successful updateTask, on the same id,
\* answers with the task the update answered with: id, title, dueDate,
\* completed, createdAt and updatedAt are equal.
C19_Step ==
    (/\ resp.op = "UpdateTask" /\ resp.status = 200
     /\ resp'.op = "GetTask" /\ resp'.id = resp.id
     /\ tasksTable' = tasksTable)
       => /\ resp'.status = 200
          /\ resp'.task = resp.task

C19_UpdateAnswersStoredTask == [][C19_Step]_vars

----------------------------------------------------------------------------
(* Claims about the client and the table, checked under SpecClient *)

\* C18: when the service handles a toggle of the client with success, the
\* row of that task keeps its title and due_date, and every other row stays
\* as it is.
C18_Step ==
    \A k \in 1..Len(calls) :
        (/\ IsToggle(calls[k])
         /\ calls[k].stage = "sent"
         /\ Len(calls') = Len(calls)
         /\ calls'[k].stage = "answered" /\ ResponseOk(calls'[k].status))
           => /\ DOMAIN tasksTable' = DOMAIN tasksTable
              /\ \A i \in DOMAIN tasksTable :
                    IF i = calls[k].id
                    THEN /\ tasksTable'[i].title = tasksTable[i].title
                         /\ tasksTable'[i].due_date = tasksTable[i].due_date
                    ELSE tasksTable'[i] = tasksTable[i]

C18_ToggleKeepsTitleAndDueDate == [][C18_Step]_vars

----------------------------------------------------------------------------
(* Claims about progress of the client, checked under SpecClientFair *)

\* C20: the busy flag is up only while a call awaits its response, and
\* whenever it is up it comes down again.
C20_BusyFlagClears ==
    /\ [](loading => calls # <<>>)
    /\ loading ~> ~loading

\* The initial load was lost and the busy flag is down again.
C20_Witness ==
    /\ ~loading /\ calls = <<>>
    /\ failures = 1 /\ error # NoError
    /\ tasks = <<>> /\ issued = {}

====
